---- MODULE Spec2Model ----
(***************************************************************************)
(* ParallelSort (johnarobinson77): the fork-join scheduler of              *)
(* parallelFor.hpp and the sort orchestrator of parallelSort.hpp.          *)
(*                                                                         *)
(* Five specifications share this module:                                  *)
(*   SpecFJ  the scheduler: parallelFor, parallelForNoWait and             *)
(*           parallelForFinish driven by one calling thread, with the      *)
(*           std::async workers as concurrent processes and a callback     *)
(*           that may throw at one index;                                  *)
(*   Spec    parallelSort (the MINIMIZED_THREAD_LAUNCH build, the one that *)
(*           is compiled): thread cap, phase 1, the ping-pong merge rounds *)
(*           with their tasks and workers, and a comparator that does not  *)
(*           throw;                                                        *)
(*   SpecThrow  the same parallelSort with a comparator that throws once:  *)
(*           inside std::sort, inside mergePath or inside mergeFF;         *)
(*   SpecMerge  one parallelMerge call on any two small sorted ranges;     *)
(*   SpecPlan   the thread cap and the parameters of each pass, without    *)
(*           the elements, for small thread counts and for thread counts   *)
(*           around the capacity of the partition table.                   *)
(* SpecPlanFair is SpecPlan under fair scheduling.                         *)
(*                                                                         *)
(* A double is modelled by the exact rational it approximates, kept as     *)
(* numerator and denominator; llround rounds half away from zero. For the  *)
(* lengths and thread counts of the model (threads < 14) the IEEE results  *)
(* of every llround and floor in the code are the exact ones.              *)
(***************************************************************************)
EXTENDS Integers, Sequences, FiniteSets, TLC

(***************************************************************************)
(* Bounds of the model.                                                    *)
(***************************************************************************)
\* fork-join: range lengths 0..MaxRange, segment counts 1..MaxSegs,
\* at most MaxGroups fork-join groups per run
MaxRange == 4
MaxSegs == 3
MaxGroups == 2
\* sort: requested thread counts 0..MaxThreads; input lengths 0, 1, 2, 130
\* and, for each of 2..MaxThreads, the least length at which the thread cap
\* allows it and the length just below
MaxThreads == 5
\* merge: two ranges of 0..MaxMergeLen elements each, with values
\* 0..MaxValue, merged by 1..MaxWorkers workers
MaxMergeLen == 3
MaxValue == 2
MaxWorkers == 3
\* plan: requested thread counts 2..MaxPlanThreads and
\* MaxRequest-3..MaxRequest
MaxPlanThreads == 12
MaxRequest == 1024

VARIABLES
  rangeLen,   \* fork-join: end - begin of the caller's ranges
  numSegs,    \* fork-join: the num_segs the caller passes
  throwAt,    \* fork-join: the index at which fn throws, -1 for none
  grp,        \* fork-join: group number -> the state of one fork-join call
  calls,      \* fork-join: group number -> index -> number of fn(index) made
  launched    \* fork-join: group number -> number of std::async launches

fjVars == <<rangeLen, numSegs, throwAt, grp, calls, launched>>

VARIABLES
  len,        \* sort: end - begin
  cmp,        \* sort: the comparator (see compFunc)
  throwSite,  \* sort: where the comparator throws, once: "none", "sort"
              \*   (inside std::sort), "path" (inside mergePath) or "merge"
              \*   (inside mergeFF)
  input,      \* sort: the caller's buffer as it was at the call
  orig,       \* sort: the caller's buffer, begin[0..len)
  swap,       \* sort: the scratch buffer, <<>> while there is none
  swapLive,   \* sort: swap is allocated and not deleted
  pc,         \* sort: where the calling thread is in parallelSort
  threads,    \* sort: threads, once resolved and capped
  delta,      \* sort: delta, as [num, den] (den = 0: the division by 0 threads)
  d,          \* sort: the round counter d of the loop at line 277
  toSwap,     \* sort: the pass in progress merges begin -> swap
  loops,      \* sort: loops
  loThreads,  \* sort: loThreads
  pmThreads,  \* sort: pmThreads
  p1,         \* sort: the futures of phase 1's parallelFor
  task,       \* sort: the merge tasks of the pass in progress
  hist        \* sort: history kept for the properties

callVars == <<len, cmp, throwSite, input>>
bufVars == <<orig, swap, swapLive>>
roundVars == <<loops, loThreads, pmThreads>>
sortVars == <<callVars, bufVars, roundVars, pc, threads, delta, d, toSwap, p1, task, hist>>

vars == <<fjVars, sortVars>>

(***************************************************************************)
(* Arithmetic helpers.                                                     *)
(***************************************************************************)
\* llround(num/den) for num >= 0, den > 0: nearest integer, halves away
\* from zero
llround(num, den) == (2 * num + den) \div (2 * den)

Min(a, b) == IF a < b THEN a ELSE b

(***************************************************************************)
(* The fork-join scheduler (parallelFor.hpp).                              *)
(*                                                                         *)
(* One record per fork-join group:                                         *)
(*   kind   "none" | "for" (parallelFor) | "nowait" (parallelForNoWait)    *)
(*   phase  where the calling thread is in the call:                       *)
(*            "launch"   the std::async loop, then the last segment on the *)
(*                       calling thread                                    *)
(*            "wait"     parallelFor's futures[seg].wait() loop            *)
(*            "unwind"   an exception leaves parallelFor: the local        *)
(*                       futures vector is destroyed, and the destructor   *)
(*                       of a std::async future blocks until its task ends *)
(*            "returned" parallelFor returned normally                     *)
(*            "raised"   the call threw to its caller                      *)
(*            "handle"   parallelForNoWait returned its handle             *)
(*            "finish"   parallelForFinish's wait loop                     *)
(*            "joined"   parallelForFinish returned                        *)
(*   n, segs  the range length and num_segs (after the clamp)              *)
(*   seg      the loop counter of the launch loop or of the wait loop      *)
(*   sBeg     sBeg;  sEnd is (sEndK * n) / segs                            *)
(*   i        the index at which the calling thread's own segment stopped  *)
(*   others   the number of other handles outstanding when the join of     *)
(*            this one began                                               *)
(*   futures  one record per launched worker: [lb, le, st], st being       *)
(*            "running", "done", or "failed" (the exception is stored in   *)
(*            the future's shared state)                                   *)
(***************************************************************************)
Groups == 1..MaxGroups

NoGroup ==
  [kind |-> "none", phase |-> "none", n |-> 0, segs |-> 0, seg |-> 0,
   sBeg |-> 0, sEndK |-> 0, i |-> 0, others |-> 0, futures |-> <<>>]

\* the calling thread is inside a call of group g
InCall(g) == grp[g].phase \in {"launch", "wait", "unwind", "finish"}

CallerFree == \A g \in Groups : ~InCall(g)

\* groups are used in order
NextGroup(g) ==
  /\ grp[g].kind = "none"
  /\ \A h \in Groups : h < g => grp[h].kind # "none"

\* line 31 / line 79: if (n < num_segs) num_segs = n;
ClampSegs(n, num_segs) == IF n < num_segs THEN n ELSE num_segs

\* a segment size kept as an integer: sEnd = sEndK * (n / num_segs)
RoundSEndWholeSize(g) == grp[g].sEndK * (grp[g].n \div grp[g].segs)

\* llround(sEnd) of group g
RoundSEnd(g) == llround(grp[g].sEndK * grp[g].n, grp[g].segs)

\* parallelFor entry, lines 25-40
parallelFor(g) ==
  /\ CallerFree
  /\ NextGroup(g)
  /\ grp' = [grp EXCEPT ![g] =
       IF rangeLen = 0
       THEN [NoGroup EXCEPT !.kind = "for", !.phase = "returned"]
       ELSE [NoGroup EXCEPT !.kind = "for", !.phase = "launch", !.n = rangeLen,
                            !.segs = ClampSegs(rangeLen, numSegs), !.sEndK = 1]]
  /\ UNCHANGED <<rangeLen, numSegs, throwAt, calls, launched>>
  /\ UNCHANGED sortVars

\* parallelForNoWait entry, lines 71-86; the handle is allocated first
parallelForNoWait(g) ==
  /\ CallerFree
  /\ NextGroup(g)
  /\ grp' = [grp EXCEPT ![g] =
       IF rangeLen = 0
       THEN [NoGroup EXCEPT !.kind = "nowait", !.phase = "handle"]
       ELSE [NoGroup EXCEPT !.kind = "nowait", !.phase = "launch", !.n = rangeLen,
                            !.segs = ClampSegs(rangeLen, numSegs), !.sEndK = 1]]
  /\ UNCHANGED <<rangeLen, numSegs, throwAt, calls, launched>>
  /\ UNCHANGED sortVars

\* mutant: the launch loop stops one segment early
LaunchCountShort(num_segs) == num_segs - 2

\* the number of workers the launch loop starts: seg < num_segs - 1
LaunchCount(num_segs) == num_segs - 1

\* one iteration of the launch loop, lines 42-55 / 89-95
LaunchSeg(g) ==
  /\ grp[g].phase = "launch"
  /\ grp[g].seg < LaunchCount(grp[g].segs)
  /\ grp' = [grp EXCEPT ![g] =
       [@ EXCEPT !.futures = Append(@, [lb |-> grp[g].sBeg, le |-> RoundSEnd(g),
                                        st |-> "running"]),
                 !.sBeg = RoundSEnd(g),
                 !.sEndK = @ + 1,
                 !.seg = @ + 1]]
  /\ launched' = [launched EXCEPT ![g] = @ + 1]
  /\ UNCHANGED <<rangeLen, numSegs, throwAt, calls>>
  /\ UNCHANGED sortVars

\* for (i = lb; i < le; i++) fn(begin + i): the index at which the loop
\* stops, le when no fn throws, the throwing index otherwise
StopAt(lb, le, failAt) == IF lb <= failAt /\ failAt < le THEN failAt ELSE le

\* the calls counter after fn ran for the indices lb..stop-1
Invoked(c, lb, stop) ==
  [i \in DOMAIN c |-> IF lb <= i /\ i < stop THEN c[i] + 1 ELSE c[i]]

\* mutant: the exception leaves parallelFor without waiting for the workers
OwnThrowPhaseNoUnwind(kind) == "raised"

\* what leaves the own-segment loop when fn throws on the calling thread:
\* parallelFor unwinds through its local futures vector; parallelForNoWait
\* holds its vector through a raw pointer, which nothing destroys
OwnThrowPhase(kind) == IF kind = "for" THEN "unwind" ELSE "raised"

\* the launch loop has ended; the last segment runs on the calling thread,
\* line 57 / line 97. Then parallelFor goes on to wait, lines 59-61, and
\* parallelForNoWait returns the handle, line 99
OwnSegment(g) ==
  /\ grp[g].phase = "launch"
  /\ ~(grp[g].seg < LaunchCount(grp[g].segs))
  /\ LET stop == StopAt(grp[g].sBeg, RoundSEnd(g), throwAt) IN
     /\ calls' = [calls EXCEPT ![g] = Invoked(@, grp[g].sBeg, stop)]
     /\ grp' = [grp EXCEPT ![g] =
          [@ EXCEPT !.i = stop,
                    !.seg = 0,
                    !.phase = IF stop < RoundSEnd(g) THEN OwnThrowPhase(grp[g].kind)
                              ELSE IF grp[g].kind = "for" THEN "wait" ELSE "handle"]]
  /\ UNCHANGED <<rangeLen, numSegs, throwAt, launched>>
  /\ UNCHANGED sortVars

\* a launched worker, lines 43-52 / 90-92: fn(begin + i) for its indices;
\* an exception ends the task and is kept in its future
Worker(g, w) ==
  /\ w \in 1..Len(grp[g].futures)
  /\ grp[g].futures[w].st = "running"
  /\ LET f == grp[g].futures[w]
         stop == StopAt(f.lb, f.le, throwAt) IN
     /\ calls' = [calls EXCEPT ![g] = Invoked(@, f.lb, stop)]
     /\ grp' = [grp EXCEPT ![g].futures[w].st = IF stop < f.le THEN "failed" ELSE "done"]
  /\ UNCHANGED <<rangeLen, numSegs, throwAt, launched>>
  /\ UNCHANGED sortVars

\* what the joining thread gets from a finished future: wait() returns
\* whether the task ended normally or by an exception, and the stored
\* exception is never fetched (no get())
WaitOutcome(st) == "ok"

\* mutant: wait() returns at once
ReadyAtOnce(st) == TRUE

\* future::wait() (and the destructor of a std::async future) blocks until
\* the task has ended, normally or by an exception
Ready(st) == st # "running"

\* one iteration of a wait loop: futures[seg].wait(), lines 60-61 / 105-106
WaitSeg(g) ==
  /\ grp[g].phase \in {"wait", "finish"}
  /\ grp[g].seg < Len(grp[g].futures)
  /\ Ready(grp[g].futures[grp[g].seg + 1].st)
  /\ grp' = [grp EXCEPT ![g] =
       IF WaitOutcome(grp[g].futures[grp[g].seg + 1].st) = "ok"
       THEN [@ EXCEPT !.seg = @ + 1]
       ELSE [@ EXCEPT !.phase = IF grp[g].kind = "for" THEN "unwind" ELSE "raised"]]
  /\ UNCHANGED <<rangeLen, numSegs, throwAt, calls, launched>>
  /\ UNCHANGED sortVars

\* the wait loop ends: parallelFor returns, line 62; parallelForFinish
\* deletes the handle and returns, lines 107-108
WaitEnd(g) ==
  /\ grp[g].phase \in {"wait", "finish"}
  /\ ~(grp[g].seg < Len(grp[g].futures))
  /\ grp' = [grp EXCEPT ![g] =
       [@ EXCEPT !.phase = IF grp[g].phase = "wait" THEN "returned" ELSE "joined"]]
  /\ UNCHANGED <<rangeLen, numSegs, throwAt, calls, launched>>
  /\ UNCHANGED sortVars

\* an exception leaving parallelFor destroys the futures vector (line 33);
\* ~future of a std::async task blocks until the task has ended
Unwind(g) ==
  /\ grp[g].phase = "unwind"
  /\ \A w \in 1..Len(grp[g].futures) : Ready(grp[g].futures[w].st)
  /\ grp' = [grp EXCEPT ![g] = [@ EXCEPT !.phase = "raised"]]
  /\ UNCHANGED <<rangeLen, numSegs, throwAt, calls, launched>>
  /\ UNCHANGED sortVars

\* parallelForFinish entry, lines 102-104, on a handle parallelForNoWait
\* returned
parallelForFinish(g) ==
  /\ CallerFree
  /\ grp[g].phase = "handle"
  /\ grp' = [grp EXCEPT ![g] =
       [@ EXCEPT !.phase = "finish", !.seg = 0,
                 !.others = Cardinality({h \in Groups \ {g} : grp[h].phase = "handle"})]]
  /\ UNCHANGED <<rangeLen, numSegs, throwAt, calls, launched>>
  /\ UNCHANGED sortVars

(***************************************************************************)
(* The merge machinery of parallelSort.hpp, as operators.                  *)
(*                                                                         *)
(* A buffer is a sequence; the element the code calls buf[i] (i from 0) is *)
(* buf[i + 1] here. Elements are integers. A comparator is named by a      *)
(* string:                                                                 *)
(*   "less"     a < b, std::less, the default of the overload at line 338  *)
(*   "greater"  a > b                                                      *)
(*   "coarse"   a / 2 < b / 2: a strict weak ordering under which 2k and   *)
(*              2k + 1 are equivalent but distinguishable                  *)
(***************************************************************************)
Comparators == {"less", "greater", "coarse"}

compFunc(cf, a, b) ==
  CASE cf = "less" -> a < b
    [] cf = "greater" -> a > b
    [] OTHER -> (a \div 2) < (b \div 2)

\* what a buffer holds where nothing was stored: the scratch buffer before
\* it is written (new T[len], line 268), and what a read outside a buffer
\* is taken to yield (the reader is marked stray, see mergeFF)
Garbage == -1

At(buf, i) == IF i + 1 \in DOMAIN buf THEN buf[i + 1] ELSE Garbage

\* buf[from], ..., buf[to - 1]
Slice(buf, from, to) == SubSeq(buf, from + 1, to)

\* dst after out was stored at dst[at], dst[at + 1], ...
Store(dst, at, out) ==
  [i \in 1..Len(dst) |-> IF at < i /\ i <= at + Len(out) THEN out[i - at] ELSE dst[i]]

\* a division that rounds down
iDivUpTruncated(a, b) == a \div b

\* line 30-33
iDivUp(a, b) == IF a % b = 0 THEN a \div b ELSE a \div b + 1

\* (int64_t)ceil(log2(threads)) for threads >= 1
RECURSIVE CeilLog2From(_, _, _)
CeilLog2From(n, k, pow) == IF pow >= n THEN k ELSE CeilLog2From(n, k + 1, 2 * pow)

CeilLog2(n) == CeilLog2From(n, 0, 1)

\* a loop body that takes from b when neither head is before the other
StepToAEndTieToB(src, cf, bEnd, s) ==
  IF compFunc(cf, At(src, s.a), At(src, s.b))
  THEN [a |-> s.a + 1, b |-> s.b, out |-> Append(s.out, At(src, s.a)),
        stray |-> s.stray \/ s.b > bEnd]
  ELSE [a |-> s.a, b |-> s.b + 1, out |-> Append(s.out, At(src, s.b)),
        stray |-> s.stray \/ s.b > bEnd]

\* one pass through the body of the loop of lines 45-47:
\* dst[dBeg++] = !compFunc(src[bBeg], src[aBeg]) ? src[aBeg++] : src[bBeg++]
\* The loop does not test bBeg: a pass with bBeg beyond bEnd reads outside
\* the b range (stray)
StepToAEnd(src, cf, bEnd, s) ==
  IF ~compFunc(cf, At(src, s.b), At(src, s.a))
  THEN [a |-> s.a + 1, b |-> s.b, out |-> Append(s.out, At(src, s.a)),
        stray |-> s.stray \/ s.b > bEnd]
  ELSE [a |-> s.a, b |-> s.b + 1, out |-> Append(s.out, At(src, s.b)),
        stray |-> s.stray \/ s.b > bEnd]

\* while (aBeg <= aEnd) <body>, lines 45-47: the loop is bounded by aEnd only.
\* k bounds the passes evaluated (the caller gives more than the loop can
\* make); the passes are evaluated in two halves to keep the evaluation flat
RECURSIVE LoopToAEnd(_, _, _, _, _, _)
LoopToAEnd(src, cf, aEnd, bEnd, s, k) ==
  IF ~(s.a <= aEnd) THEN s
  ELSE IF k <= 1 THEN StepToAEnd(src, cf, bEnd, s)
  ELSE LoopToAEnd(src, cf, aEnd, bEnd,
                  LoopToAEnd(src, cf, aEnd, bEnd, s, k \div 2), k - (k \div 2))

\* a loop body that takes from b whatever the comparator says
StepToBEndAlwaysB(src, cf, aEnd, s) ==
  [a |-> s.a, b |-> s.b + 1, out |-> Append(s.out, At(src, s.b)),
   stray |-> s.stray \/ s.a > aEnd]

\* one pass through the body of the loop of lines 53-55:
\* dst[dBeg++] = compFunc(src[aBeg], src[bBeg]) ? src[aBeg++] : src[bBeg++]
StepToBEnd(src, cf, aEnd, s) ==
  IF compFunc(cf, At(src, s.a), At(src, s.b))
  THEN [a |-> s.a + 1, b |-> s.b, out |-> Append(s.out, At(src, s.a)),
        stray |-> s.stray \/ s.a > aEnd]
  ELSE [a |-> s.a, b |-> s.b + 1, out |-> Append(s.out, At(src, s.b)),
        stray |-> s.stray \/ s.a > aEnd]

\* while (bBeg <= bEnd) <body>, lines 53-55: the loop is bounded by bEnd only
RECURSIVE LoopToBEnd(_, _, _, _, _, _)
LoopToBEnd(src, cf, aEnd, bEnd, s, k) ==
  IF ~(s.b <= bEnd) THEN s
  ELSE IF k <= 1 THEN StepToBEnd(src, cf, aEnd, s)
  ELSE LoopToBEnd(src, cf, aEnd, bEnd,
                  LoopToBEnd(src, cf, aEnd, bEnd, s, k \div 2), k - (k \div 2))

\* a test that sends mergeFF into the other loop
AEndsFirstInverted(src, cf, aEnd, bEnd) == ~compFunc(cf, At(src, aEnd), At(src, bEnd))

\* which loop mergeFF takes, line 44: the a range ends first
AEndsFirst(src, cf, aEnd, bEnd) == compFunc(cf, At(src, aEnd), At(src, bEnd))

\* a mergeFF without the copy loops of lines 49 and 57
mergeFFNoTail(src, aBeg, aEnd, bBeg, bEnd, cf) ==
  LET s0 == [a |-> aBeg, b |-> bBeg, out |-> <<>>,
             stray |-> aBeg > aEnd \/ bBeg > bEnd]
      r == IF AEndsFirst(src, cf, aEnd, bEnd)
           THEN LoopToAEnd(src, cf, aEnd, bEnd, s0, 2 * Len(src))
           ELSE LoopToBEnd(src, cf, aEnd, bEnd, s0, 2 * Len(src))
  IN [out |-> r.out, stray |-> r.stray]

\* mergeFF, lines 43-60: the values it stores at dst[dBeg], dst[dBeg+1], ...
\* and whether it left its ranges (stray), which two sorted ranges never
\* cause: what it then reads and stores is not defined
mergeFF(src, aBeg, aEnd, bBeg, bEnd, cf) ==
  LET s0 == [a |-> aBeg, b |-> bBeg, out |-> <<>>,
             stray |-> aBeg > aEnd \/ bBeg > bEnd]
      r == IF AEndsFirst(src, cf, aEnd, bEnd)
           THEN LoopToAEnd(src, cf, aEnd, bEnd, s0, 2 * Len(src))
           ELSE LoopToBEnd(src, cf, aEnd, bEnd, s0, 2 * Len(src))
  IN IF r.stray THEN [out |-> r.out, stray |-> TRUE]
     ELSE IF r.a > aEnd
     THEN [out |-> r.out \o Slice(src, r.b, bEnd + 1), stray |-> FALSE]
     ELSE [out |-> r.out \o Slice(src, r.a, aEnd + 1), stray |-> FALSE]

\* mergePath, lines 69-81; valA = src + aBeg, valB = src + bBeg
RECURSIVE PathSearch(_, _, _, _, _, _, _)
PathSearch(src, cf, aBeg, bBeg, diag, begin, end) ==
  IF begin < end
  THEN LET mid == begin + ((end - begin) \div 2)
           pred == compFunc(cf, At(src, aBeg + mid), At(src, bBeg + (diag - 1 - mid)))
       IN IF pred
          THEN PathSearch(src, cf, aBeg, bBeg, diag, mid + 1, end)
          ELSE PathSearch(src, cf, aBeg, bBeg, diag, begin, mid)
  ELSE begin

Max(a, b) == IF a > b THEN a ELSE b

\* a search that answers from the other end of its window
mergePathMirrored(src, cf, aBeg, aCount, bBeg, bCount, diag) ==
  Max(0, diag - bCount) + Min(diag, aCount)
    - PathSearch(src, cf, aBeg, bBeg, diag, Max(0, diag - bCount), Min(diag, aCount))

mergePath(src, cf, aBeg, aCount, bBeg, bCount, diag) ==
  PathSearch(src, cf, aBeg, bBeg, diag, Max(0, diag - bCount), Min(diag, aCount))

\* llround(i * spacing), spacing = (aCount + bCount) / threads, lines 93, 112
Grid(i, total, P) == llround(i * total, P)

\* a table whose interior entries are the upper end of the window, unsearched
getMergePathsUnsearched(src, cf, aBeg, aCount, bBeg, bCount, P) ==
  [i \in 0..P |->
     IF i = P THEN aCount
     ELSE IF i = 0 THEN 0
     ELSE Min(Grid(i, aCount + bCount, P), aCount)]

\* getMergePaths, lines 85-97: the table mpi[0..threads]
getMergePaths(src, cf, aBeg, aCount, bBeg, bCount, P) ==
  [i \in 0..P |->
     IF i = P THEN aCount
     ELSE IF i = 0 THEN 0
     ELSE mergePath(src, cf, aBeg, aCount, bBeg, bCount, Grid(i, aCount + bCount, P))]

\* worker ranges that all store from the start of the destination
WorkerRangesSameStart(mpi, thread, aBeg, aCount, bBeg, bCount, dBeg, P) ==
  LET grid == Grid(thread, aCount + bCount, P) IN
  [a0 |-> mpi[thread] + aBeg,
   a1 |-> mpi[thread + 1] + aBeg,
   b0 |-> (grid - mpi[thread]) + bBeg,
   b1 |-> (Grid(thread + 1, aCount + bCount, P) - mpi[thread + 1]) + bBeg,
   wtid |-> dBeg]

\* the ranges of one parallelMerge worker, lines 116-123
WorkerRanges(mpi, thread, aBeg, aCount, bBeg, bCount, dBeg, P) ==
  LET grid == Grid(thread, aCount + bCount, P) IN
  [a0 |-> mpi[thread] + aBeg,
   a1 |-> mpi[thread + 1] + aBeg,
   b0 |-> (grid - mpi[thread]) + bBeg,
   b1 |-> (Grid(thread + 1, aCount + bCount, P) - mpi[thread + 1]) + bBeg,
   wtid |-> dBeg + grid]

\* a worker that stores its A slice alone whenever it has one
WorkerOutputOnlyA(src, cf, r) ==
  IF r.a0 = r.a1 THEN [out |-> Slice(src, r.b0, r.b1), stray |-> FALSE]
  ELSE [out |-> Slice(src, r.a0, r.a1), stray |-> FALSE]

\* what one parallelMerge worker stores at dst[wtid], ..., lines 125-133
WorkerOutput(src, cf, r) ==
  IF r.a0 = r.a1 THEN [out |-> Slice(src, r.b0, r.b1), stray |-> FALSE]
  ELSE IF r.b0 = r.b1 THEN [out |-> Slice(src, r.a0, r.a1), stray |-> FALSE]
  ELSE mergeFF(src, r.a0, r.a1 - 1, r.b0, r.b1 - 1, cf)

\* aBeg, bBeg and what is stored when the compare-and-copy loop of mergeFF
\* ends, line 48 or line 56
mergeFFLoop(src, aBeg, aEnd, bBeg, bEnd, cf) ==
  LET s0 == [a |-> aBeg, b |-> bBeg, out |-> <<>>,
             stray |-> aBeg > aEnd \/ bBeg > bEnd]
  IN IF AEndsFirst(src, cf, aEnd, bEnd)
     THEN LoopToAEnd(src, cf, aEnd, bEnd, s0, 2 * Len(src))
     ELSE LoopToBEnd(src, cf, aEnd, bEnd, s0, 2 * Len(src))

\* the same after n passes of the loop, n at most the passes it makes
mergeFFLoopAfter(src, aBeg, aEnd, bBeg, bEnd, cf, n) ==
  LET s0 == [a |-> aBeg, b |-> bBeg, out |-> <<>>,
             stray |-> aBeg > aEnd \/ bBeg > bEnd]
  IN IF n = 0 THEN s0
     ELSE IF AEndsFirst(src, cf, aEnd, bEnd)
     THEN LoopToAEnd(src, cf, aEnd, bEnd, s0, n)
     ELSE LoopToBEnd(src, cf, aEnd, bEnd, s0, n)

\* the comparator calls of one mergeFF: the test of line 44, then one in each
\* pass of the loop it takes (line 46 or line 54); the copy loops make none
mergeFFCalls(src, aBeg, aEnd, bBeg, bEnd, cf) ==
  1 + Len(mergeFFLoop(src, aBeg, aEnd, bBeg, bEnd, cf).out)

\* a worker that hands every pair of slices to mergeFF
WorkerCallsAlwaysMerge(src, cf, r) ==
  mergeFFCalls(src, r.a0, r.a1 - 1, r.b0, r.b1 - 1, cf)

\* the comparator calls of one parallelMerge worker, lines 125-133: the two
\* copy loops make none
WorkerCalls(src, cf, r) ==
  IF r.a0 = r.a1 THEN 0
  ELSE IF r.b0 = r.b1 THEN 0
  ELSE mergeFFCalls(src, r.a0, r.a1 - 1, r.b0, r.b1 - 1, cf)

\* the worker calls the comparator (mergeFF) only with both slices non-empty
WorkerCompares(r) == r.a0 # r.a1 /\ r.b0 # r.b1

\* std::sort(begin + lb, begin + le, compFunc), line 258: the range sorted
\* under the comparator (equivalent elements keep their order here; the
\* standard leaves their order open)
stdSort(buf, lb, le, cf) ==
  Store(buf, lb, SortSeq(Slice(buf, lb, le), LAMBDA a, b : compFunc(cf, a, b)))

(***************************************************************************)
(* parallelSort, lines 236-334.                                            *)
(*                                                                         *)
(* pc: "entry"    before the call                                          *)
(*     "p1own"    phase 1: the workers are launched, the calling thread    *)
(*                sorts the last segment                                   *)
(*     "p1wait"   phase 1: parallelFor waits for its workers               *)
(*     "p1unwind" phase 1: an exception of the calling thread's std::sort  *)
(*                leaves parallelFor, whose futures are destroyed          *)
(*     "loop"     at the test of the loop at line 277                      *)
(*     "pass"     inside a merge pass: from parallelForNoWait to           *)
(*                parallelForFinish                                        *)
(*     "mid"      between the two passes of one loop iteration             *)
(*     "done"     parallelSort returned                                    *)
(*     "threw"    an exception left parallelSort                           *)
(*     "undefined" a thread did what the language leaves undefined: a      *)
(*                merge left its ranges (its input was not two sorted      *)
(*                ranges), or a launched task began after the exception    *)
(*                had left parallelSort, whose locals its lambda holds by  *)
(*                reference; nothing is modelled beyond that point         *)
(*                                                                         *)
(* A merge task is one parallelMerge call: the full pairs are tasks        *)
(* 1..loops, the leftover is task loops + 1. Tasks 1..loops-1 run on the   *)
(* threads parallelForNoWait launches, task loops and the leftover on the  *)
(* calling thread, in that order. A task record:                           *)
(*   st   "new", "run" (table computed, workers launched, own slice        *)
(*        merged), "done", "failed" (ended by an exception)                *)
(*   exc  an exception of the task's own slice is propagating              *)
(*   mpi  the partition table                                              *)
(*   sub  the futures of parallelMerge's parallelFor, one per launched     *)
(*        worker: "running", "done", "failed"                              *)
(***************************************************************************)
\* line 245: (len + 64) / 128LL
MinPerThread == 128
RoundUpBias == 64

Lens ==
  {0, 1, 2, 130} \cup
  {MinPerThread * k - RoundUpBias - j : k \in 2..MaxThreads, j \in {0, 1}}

Patterns == {"scattered", "repeated"}

\* the caller's data: distinct values in no order, or few values many times
Input(n, pattern) ==
  [i \in 1..n |-> IF pattern = "scattered" THEN (i * 7919) % 1009 ELSE (i * 37) % 23]

\* std::thread::hardware_concurrency(), line 239: 0 when it cannot tell
HardwareConcurrency == {0, MaxThreads}

\* lines 245-247
CapThreads(n, requested) ==
  Min(requested, Max((n + RoundUpBias) \div MinPerThread, 1))

\* llround(k * delta)
Bound(k, dl) == llround(k * dl.num, dl.den)

\* the comparator throws here (it throws once per call at most)
Throws(site) == throwSite = site /\ ~hist.thrown

Ended(st) == st # "running"

\* a return only when there is no thread at all
EarlyReturnNoThread(t) == t < 1

\* line 261: if (threads <= 1) return;
EarlyReturn(t) == t <= 1

\* parallelSort's entry, lines 237-252, and the entry and launch loop of
\* phase 1's parallelFor((int64_t)0, (int64_t)threads, ..., threads)
parallelSort(requested, hw) ==
  /\ pc = "entry"
  /\ LET t == CapThreads(len, IF requested = 0 THEN hw ELSE requested) IN
     /\ threads' = t
     /\ delta' = [num |-> len, den |-> t]
     /\ IF t = 0
        THEN p1' = <<>> /\ pc' = "p1wait"
        ELSE p1' = [i \in 1..t - 1 |-> "running"] /\ pc' = "p1own"
  /\ hist' = [hist EXCEPT !.requested = requested]
  /\ UNCHANGED <<callVars, bufVars, roundVars, d, toSwap, task>>
  /\ UNCHANGED fjVars

\* a phase 1 that leaves its segment as it is
SortSegmentSkipped(buf, i) == buf

\* the lambda of lines 255-259 for segment i, on buffer buf
SortSegment(buf, i) == stdSort(buf, Bound(i, delta), Bound(i + 1, delta), cmp)

SegmentLen(i) == Bound(i + 1, delta) - Bound(i, delta)

\* the last segment of phase 1, on the calling thread
P1Own ==
  /\ pc = "p1own"
  /\ IF Throws("sort") /\ SegmentLen(threads - 1) >= 2
     THEN /\ pc' = "p1unwind"
          /\ hist' = [hist EXCEPT !.thrown = TRUE]
          /\ UNCHANGED orig
     ELSE /\ pc' = "p1wait"
          /\ orig' = SortSegment(orig, threads - 1)
          /\ hist' = [hist EXCEPT !.touched = @ + SegmentLen(threads - 1)]
  /\ UNCHANGED <<callVars, swap, swapLive, roundVars, threads, delta, d, toSwap, p1, task>>
  /\ UNCHANGED fjVars

\* a launched worker of phase 1: segment i - 1
P1Worker(i) ==
  /\ i \in 1..Len(p1)
  /\ p1[i] = "running"
  /\ IF Throws("sort") /\ SegmentLen(i - 1) >= 2
     THEN /\ p1' = [p1 EXCEPT ![i] = "failed"]
          /\ hist' = [hist EXCEPT !.thrown = TRUE]
          /\ UNCHANGED orig
     ELSE /\ p1' = [p1 EXCEPT ![i] = "done"]
          /\ orig' = SortSegment(orig, i - 1)
          /\ hist' = [hist EXCEPT !.touched = @ + SegmentLen(i - 1)]
  /\ UNCHANGED <<callVars, swap, swapLive, roundVars, pc, threads, delta, d, toSwap, task>>
  /\ UNCHANGED fjVars

\* the ends of the segments phase 1 sorts, lines 256-257
Phase1Runs == {Bound(i, delta) : i \in 0..threads}

\* phase 1's parallelFor has waited for its workers (or, unwinding, has
\* destroyed their futures); then lines 261-270
P1Join ==
  /\ pc \in {"p1wait", "p1unwind"}
  /\ \A i \in 1..Len(p1) : Ended(p1[i])
  /\ IF pc = "p1unwind"
     THEN /\ pc' = "threw"
          /\ UNCHANGED <<swap, swapLive, d, hist>>
     ELSE IF EarlyReturn(threads)
     THEN /\ pc' = "done"
          /\ UNCHANGED <<swap, swapLive, d, hist>>
     ELSE /\ pc' = "loop"
          /\ swap' = [i \in 1..len |-> Garbage]
          /\ swapLive' = TRUE
          /\ d' = CeilLog2(threads)
          /\ hist' = [hist EXCEPT !.everAlloc = TRUE, !.runs = Phase1Runs]
  /\ UNCHANGED <<callVars, orig, roundVars, threads, delta, toSwap, p1, task>>
  /\ UNCHANGED fjVars

\* line 288 / 309: (int64_t)floor(double(len) / (2.0 * delta))
Loops(n, dl) == (n * dl.den) \div (2 * dl.num)

\* a round that never sees a leftover
HasLeftoverNever(lp, n, dl) == FALSE

\* line 290 / 301: llround(loStart) < len, loStart = loops * 2.0 * delta
HasLeftover(lp, n, dl) == Bound(2 * lp, dl) < n

NewTask == [st |-> "new", exc |-> FALSE, mpi |-> <<>>, sub |-> <<>>]

\* a loop that stops one round short
LoopTestShort(k) == k > 1

\* the loop test at line 277
LoopTest(k) == k > 0

\* the start of a pass, lines 288-294 / 309-316: the round's parameters, and
\* parallelForNoWait's launch of the threads of tasks 1..loops-1
StartPass ==
  /\ pc \in {"loop", "mid"}
  /\ pc = "loop" => LoopTest(d)
  /\ LET lp == Loops(len, delta)
         tasks == lp + IF HasLeftover(lp, len, delta) THEN 1 ELSE 0
         pm == iDivUp(threads, tasks)
     IN /\ loops' = lp
        /\ pmThreads' = pm
        /\ loThreads' = threads - (lp * pm)
        /\ task' = [t \in 1..tasks |-> NewTask]
  /\ toSwap' = (pc = "loop")
  /\ pc' = "pass"
  /\ UNCHANGED <<callVars, bufVars, threads, delta, d, p1, hist>>
  /\ UNCHANGED fjVars

\* tasks whose B range starts one element late
TaskArgsLateMid(t) ==
  IF t <= loops
  THEN [lb |-> Bound(2 * (t - 1), delta),
        lm |-> Bound(2 * (t - 1) + 1, delta) + 1,
        le |-> Bound(2 * (t - 1) + 2, delta),
        P |-> pmThreads]
  ELSE [lb |-> Bound(2 * loops, delta),
        lm |-> Min(Bound(2 * loops + 1, delta) + 1, len),
        le |-> len,
        P |-> loThreads]

\* the arguments of task t's parallelMerge: A = [lb, lm - 1], B = [lm, le - 1],
\* dBeg = lb, threads = P; lines 295-298 and 302-304
TaskArgs(t) ==
  IF t <= loops
  THEN [lb |-> Bound(2 * (t - 1), delta),
        lm |-> Bound(2 * (t - 1) + 1, delta),
        le |-> Bound(2 * (t - 1) + 2, delta),
        P |-> pmThreads]
  ELSE [lb |-> Bound(2 * loops, delta),
        lm |-> Min(Bound(2 * loops + 1, delta), len),
        le |-> len,
        P |-> loThreads]

\* a pass that never reads the scratch buffer
SrcNeverSwap == orig

\* the pass reads src and writes dst: begin -> swap, then swap -> begin
Src == IF toSwap THEN orig ELSE swap

\* a parallelForNoWait that launches a thread for its last segment too
AsyncAll(t) == t <= loops

\* task t runs on a thread parallelForNoWait launched
Async(t) == t < loops

\* the calling thread runs task loops inside parallelForNoWait (line 97) and
\* then the leftover (line 304)
CallerTurn(t) ==
  /\ pc = "pass"
  /\ \/ t = loops
     \/ t = loops + 1 /\ (IF loops = 0 THEN TRUE ELSE task[loops].st = "done")

\* getMergePaths calls the comparator: some mergePath has begin < end
PathCompares(aCount, bCount, P) ==
  \E i \in 1..P - 1 :
    LET diag == Grid(i, aCount + bCount, P)
    IN Max(0, diag - bCount) < Min(diag, aCount)

\* the ranges of worker thread k (from 0) of task t
TaskWorker(t, mpi, k) ==
  LET r == TaskArgs(t)
  IN WorkerRanges(mpi, k, r.lb, r.lm - r.lb, r.lm, r.le - r.lm, r.lb, r.P)

\* the elements of the caller's buffer a worker's stores overwrite
Stored(out) == IF toSwap THEN 0 ELSE Len(out)

\* a worker that stores into the buffer the pass reads
WrittenIntoSrc(w, out) ==
  /\ IF toSwap
     THEN orig' = Store(orig, w.wtid, out) /\ UNCHANGED swap
     ELSE swap' = Store(swap, w.wtid, out) /\ UNCHANGED orig
  /\ UNCHANGED swapLive

\* the buffers after a worker stored out at dst[wtid], ...
Written(w, out) ==
  /\ IF toSwap
     THEN swap' = Store(swap, w.wtid, out) /\ UNCHANGED orig
     ELSE orig' = Store(orig, w.wtid, out) /\ UNCHANGED swap
  /\ UNCHANGED swapLive

\* parallelMerge up to its wait loop, lines 106-134 and parallelFor lines
\* 25-57: the partition table, the launch of threads 0..P-2, and the last
\* slice (thread P-1) on the thread that runs the task
TaskStart(t) ==
  /\ t \in 1..Len(task)
  /\ task[t].st = "new"
  /\ Async(t) \/ CallerTurn(t)
  /\ pc # "undefined"
  /\ LET r == TaskArgs(t)
         aCount == r.lm - r.lb
         bCount == r.le - r.lm
     IN IF pc = "threw"
        THEN /\ pc' = "undefined"
             /\ UNCHANGED <<task, hist, bufVars>>
        ELSE IF Throws("path") /\ PathCompares(aCount, bCount, r.P)
        THEN /\ task' = [task EXCEPT ![t].st = "failed"]
             /\ pc' = IF Async(t) THEN pc ELSE "threw"
             /\ hist' = [hist EXCEPT !.thrown = TRUE]
             /\ UNCHANGED bufVars
        ELSE LET mpi == getMergePaths(Src, cmp, r.lb, aCount, r.lm, bCount, r.P)
                 w == TaskWorker(t, mpi, r.P - 1)
                 o == WorkerOutput(Src, cmp, w)
                 run == [st |-> "run", exc |-> FALSE, mpi |-> mpi,
                         sub |-> [k \in 1..r.P - 1 |-> "running"]]
             IN IF Throws("merge") /\ WorkerCalls(Src, cmp, w) > 0
                THEN /\ task' = [task EXCEPT ![t] = [run EXCEPT !.exc = TRUE]]
                     /\ hist' = [hist EXCEPT !.thrown = TRUE]
                     /\ UNCHANGED <<pc, bufVars>>
                ELSE IF o.stray
                THEN /\ pc' = "undefined"
                     /\ UNCHANGED <<task, hist, bufVars>>
                ELSE /\ task' = [task EXCEPT ![t] = run]
                     /\ Written(w, o.out)
                     /\ hist' = [hist EXCEPT !.touched = @ + Stored(o.out)]
                     /\ UNCHANGED pc
  /\ UNCHANGED <<callVars, roundVars, threads, delta, d, toSwap, p1>>
  /\ UNCHANGED fjVars

\* a launched worker of parallelMerge's parallelFor: thread k - 1 of task t
SubWorker(t, k) ==
  /\ t \in 1..Len(task)
  /\ task[t].st = "run"
  /\ k \in 1..Len(task[t].sub)
  /\ task[t].sub[k] = "running"
  /\ pc # "undefined"
  /\ LET w == TaskWorker(t, task[t].mpi, k - 1)
         o == WorkerOutput(Src, cmp, w)
     IN IF Throws("merge") /\ WorkerCalls(Src, cmp, w) > 0
        THEN /\ task' = [task EXCEPT ![t].sub[k] = "failed"]
             /\ hist' = [hist EXCEPT !.thrown = TRUE]
             /\ UNCHANGED <<pc, bufVars>>
        ELSE IF o.stray
        THEN /\ pc' = "undefined"
             /\ UNCHANGED <<task, hist, bufVars>>
        ELSE /\ task' = [task EXCEPT ![t].sub[k] = "done"]
             /\ Written(w, o.out)
             /\ hist' = [hist EXCEPT !.touched = @ + Stored(o.out)]
             /\ UNCHANGED pc
  /\ UNCHANGED <<callVars, roundVars, threads, delta, d, toSwap, p1>>
  /\ UNCHANGED fjVars

\* parallelMerge's parallelFor has waited for its workers, lines 59-61 (or,
\* unwinding, has destroyed their futures) and parallelMerge ends. On the
\* calling thread an exception goes on through parallelForNoWait or
\* parallelSort itself, neither of which catches it
TaskJoin(t) ==
  /\ t \in 1..Len(task)
  /\ task[t].st = "run"
  /\ pc # "undefined"
  /\ \A k \in 1..Len(task[t].sub) : Ended(task[t].sub[k])
  /\ task' = [task EXCEPT ![t].st = IF task[t].exc THEN "failed" ELSE "done"]
  /\ pc' = IF task[t].exc /\ ~Async(t) THEN "threw" ELSE pc
  /\ UNCHANGED <<callVars, bufVars, roundVars, threads, delta, d, toSwap, p1, hist>>
  /\ UNCHANGED fjVars

\* the body of the loop holds two passes: after the pass begin -> swap
\* (lines 288-307) the same iteration goes on with swap -> begin (lines
\* 309-329), and only then d -= 2
SecondPassNever(firstDone) == FALSE

SecondPass(firstDone) == firstDone

\* a pass whose end waits for nothing
PassJoinedAtOnce == TRUE

\* a pass that ends without parallelForFinish
PassJoinedCallerOnly ==
  \A t \in 1..Len(task) : Async(t) \/ task[t].st = "done"

\* the calling thread's own tasks have returned, and parallelForFinish has
\* waited for every launched task (parallelFor.hpp lines 105-106), which ends
\* normally or by an exception only after parallelMerge's parallelFor has
\* waited for its workers
PassJoined ==
  \A t \in 1..Len(task) :
    IF Async(t) THEN task[t].st \in {"done", "failed"} ELSE task[t].st = "done"

\* the ends of the ranges the tasks of the pass have merged
PassRuns == UNION {{TaskArgs(t).lb, TaskArgs(t).le} : t \in 1..Len(task)}

\* the end of a pass: parallelForFinish has waited for the launched tasks,
\* then delta *= 2.0, lines 306-307 / 328-329 (and d -= 2 after the second)
FinishPass ==
  /\ pc = "pass"
  /\ PassJoined
  /\ delta' = [delta EXCEPT !.num = 2 * @]
  /\ pc' = IF SecondPass(toSwap) THEN "mid" ELSE "loop"
  /\ d' = IF SecondPass(toSwap) THEN d ELSE d - 2
  /\ task' = <<>>
  /\ hist' = [hist EXCEPT !.passes = @ + 1,
                          !.steps = IF SecondPass(toSwap) THEN @ ELSE @ + 1,
                          !.lastDst = IF toSwap THEN "swap" ELSE "orig",
                          !.runs = PassRuns]
  /\ UNCHANGED <<callVars, bufVars, roundVars, threads, toSwap, p1>>
  /\ UNCHANGED fjVars

\* the loop ends: delete[] swap, lines 331-334
LoopExit ==
  /\ pc = "loop"
  /\ ~LoopTest(d)
  /\ swap' = <<>>
  /\ swapLive' = FALSE
  /\ pc' = "done"
  /\ UNCHANGED <<callVars, orig, roundVars, threads, delta, d, toSwap, p1, task, hist>>
  /\ UNCHANGED fjVars

IdleFJ ==
  /\ rangeLen = 0
  /\ numSegs = 1
  /\ throwAt = -1
  /\ grp = [g \in Groups |-> NoGroup]
  /\ calls = [g \in Groups |-> [i \in 0..MaxRange |-> 0]]
  /\ launched = [g \in Groups |-> 0]

InitSort(sites, comps) ==
  /\ len \in Lens
  /\ cmp \in comps
  /\ throwSite \in sites
  /\ \E pattern \in Patterns : input = Input(len, pattern)
  /\ orig = input
  /\ swap = <<>>
  /\ swapLive = FALSE
  /\ pc = "entry"
  /\ threads = 0
  /\ delta = [num |-> 0, den |-> 0]
  /\ d = 0
  /\ toSwap = FALSE
  /\ loops = 0
  /\ loThreads = 0
  /\ pmThreads = 0
  /\ p1 = <<>>
  /\ task = <<>>
  /\ hist = [requested |-> 0, passes |-> 0, steps |-> 0, lastDst |-> "none",
             everAlloc |-> FALSE, thrown |-> FALSE, touched |-> 0, runs |-> {}]

IdleSort ==
  /\ InitSort({"none"}, {"less"})
  /\ len = 0

Init == IdleFJ /\ InitSort({"none"}, Comparators)

InitThrow == IdleFJ /\ InitSort({"sort", "path", "merge"}, {"less"})

Next ==
  \/ \E requested \in 0..MaxThreads, hw \in HardwareConcurrency : parallelSort(requested, hw)
  \/ P1Own
  \/ \E i \in 1..MaxThreads : P1Worker(i)
  \/ P1Join
  \/ StartPass
  \/ \E t \in 1..MaxThreads : TaskStart(t)
  \/ \E t \in 1..MaxThreads, k \in 1..MaxThreads : SubWorker(t, k)
  \/ \E t \in 1..MaxThreads : TaskJoin(t)
  \/ FinishPass
  \/ LoopExit

\* parallelSort with a comparator that never throws
Spec == Init /\ [][Next]_vars

\* parallelSort with a comparator that throws once
SpecThrow == InitThrow /\ [][Next]_vars

\* the fork-join functions on their own (parallelSort idle)
InitFJ ==
  /\ IdleSort
  /\ rangeLen \in 0..MaxRange
  /\ numSegs \in 1..MaxSegs
  /\ throwAt \in -1..MaxRange - 1
  /\ throwAt < rangeLen
  /\ grp = [g \in Groups |-> NoGroup]
  /\ calls = [g \in Groups |-> [i \in 0..MaxRange |-> 0]]
  /\ launched = [g \in Groups |-> 0]

NextFJ ==
  \/ \E g \in Groups : parallelFor(g)
  \/ \E g \in Groups : parallelForNoWait(g)
  \/ \E g \in Groups : LaunchSeg(g)
  \/ \E g \in Groups : OwnSegment(g)
  \/ \E g \in Groups, w \in 1..MaxSegs : Worker(g, w)
  \/ \E g \in Groups : WaitSeg(g)
  \/ \E g \in Groups : WaitEnd(g)
  \/ \E g \in Groups : Unwind(g)
  \/ \E g \in Groups : parallelForFinish(g)

SpecFJ == InitFJ /\ [][NextFJ]_vars

(***************************************************************************)
(* parallelMerge on its own, lines 105-135: one call                       *)
(*   parallelMerge(dst, src, 0, aCount - 1, aCount, len - 1, 0, comp, P)   *)
(* on any two adjacent ranges A = src[0..aCount) and B = src[aCount..len), *)
(* each sorted under the comparator. The variables of parallelSort hold    *)
(* the call: src is orig, dst is swap, and the call is the only task of a  *)
(* pass, with the arguments of a leftover (loops = 0, delta = aCount,      *)
(* loThreads = P), so that TaskStart, SubWorker and TaskJoin are the       *)
(* actions of the call.                                                    *)
(***************************************************************************)
\* the sequences of at most n values that are in order under comparator c
SortedRanges(n, c) ==
  {r \in UNION {[1..k -> 0..MaxValue] : k \in 0..n} :
     \A i \in 1..Len(r) - 1 : ~compFunc(c, r[i + 1], r[i])}

InitMerge ==
  /\ IdleFJ
  /\ cmp \in {"less", "coarse"}
  /\ throwSite = "none"
  /\ \E A \in SortedRanges(MaxMergeLen, cmp), B \in SortedRanges(MaxMergeLen, cmp) :
       /\ input = A \o B
       /\ delta = [num |-> Len(A), den |-> 1]
  /\ len = Len(input)
  /\ orig = input
  /\ swap = [i \in 1..len |-> Garbage]
  /\ swapLive = TRUE
  /\ pc = "pass"
  /\ toSwap = TRUE
  /\ loops = 0
  /\ pmThreads = 0
  /\ loThreads \in 1..MaxWorkers
  /\ threads = loThreads
  /\ d = 0
  /\ p1 = <<>>
  /\ task = <<NewTask>>
  /\ hist = [requested |-> 0, passes |-> 0, steps |-> 0, lastDst |-> "none",
             everAlloc |-> FALSE, thrown |-> FALSE, touched |-> 0,
             runs |-> {0, delta.num, len}]

NextMerge ==
  \/ \E t \in {1} : TaskStart(t)
  \/ \E t \in {1}, k \in 1..MaxWorkers : SubWorker(t, k)
  \/ \E t \in {1} : TaskJoin(t)

SpecMerge == InitMerge /\ [][NextMerge]_vars

(***************************************************************************)
(* The plan of parallelSort: what lines 239-252, 261, 270 and, pass by     *)
(* pass, lines 277, 288-292 / 309-313 and 307 / 329 compute, for lengths   *)
(* and thread counts too large to carry the elements along. The buffers    *)
(* are left out (input, orig and swap stay empty) and a pass is two steps: *)
(* its parameters, then its end. The lengths are multiples of the thread   *)
(* count the call resolves, so that delta is an integer and the doubles of *)
(* the code hold exactly the values computed here; the small thread counts *)
(* (below 14) also get a length that is no multiple, for which every       *)
(* llround and floor of the code still yields the exact result.            *)
(***************************************************************************)
\* size_t mpi[1024], line 108
TableCapacity == 1024

PlanRequests == (2..MaxPlanThreads) \cup {MaxRequest - j : j \in 0..3}

\* for a request r: lengths that leave r threads, and one the cap brings to
\* r - 1 threads; for a small r also a length that r does not divide
PlanLens(r) ==
  {r * MinPerThread, 2 * r * MinPerThread, (r - 1) * MinPerThread}
    \cup (IF r <= MaxPlanThreads THEN {r * MinPerThread - 1} ELSE {})

InitPlan ==
  /\ IdleFJ
  /\ \E r \in PlanRequests : len \in PlanLens(r)
  /\ cmp = "less"
  /\ throwSite = "none"
  /\ input = <<>>
  /\ orig = <<>>
  /\ swap = <<>>
  /\ swapLive = FALSE
  /\ pc = "entry"
  /\ threads = 0
  /\ delta = [num |-> 0, den |-> 0]
  /\ d = 0
  /\ toSwap = FALSE
  /\ loops = 0
  /\ loThreads = 0
  /\ pmThreads = 0
  /\ p1 = <<>>
  /\ task = <<>>
  /\ hist = [requested |-> 0, passes |-> 0, steps |-> 0, lastDst |-> "none",
             everAlloc |-> FALSE, thrown |-> FALSE, touched |-> 0, runs |-> {}]

\* lines 239-252, 261 and 268-270
PlanStart(requested, hw) ==
  /\ pc = "entry"
  /\ len \in PlanLens(requested)
  /\ LET t == CapThreads(len, IF requested = 0 THEN hw ELSE requested) IN
     /\ threads' = t
     /\ delta' = [num |-> len, den |-> t]
     /\ IF EarlyReturn(t)
        THEN pc' = "done" /\ UNCHANGED <<d, swapLive>>
        ELSE pc' = "loop" /\ d' = CeilLog2(t) /\ swapLive' = TRUE
  /\ hist' = [hist EXCEPT !.requested = requested,
                          !.everAlloc = ~EarlyReturn(threads')]
  /\ UNCHANGED <<callVars, orig, swap, roundVars, toSwap, p1, task>>
  /\ UNCHANGED fjVars

\* the parameters of a pass, lines 288-292 / 309-313
PlanPass ==
  /\ pc \in {"loop", "mid"}
  /\ pc = "loop" => LoopTest(d)
  /\ LET lp == Loops(len, delta)
         tasks == lp + IF HasLeftover(lp, len, delta) THEN 1 ELSE 0
         pm == iDivUp(threads, tasks)
     IN /\ loops' = lp
        /\ pmThreads' = pm
        /\ loThreads' = threads - (lp * pm)
  /\ toSwap' = (pc = "loop")
  /\ pc' = "pass"
  /\ UNCHANGED <<callVars, bufVars, threads, delta, d, p1, task, hist>>
  /\ UNCHANGED fjVars

\* the thread counts the pass hands to parallelMerge: pmThreads for the full
\* pairs (line 298), loThreads for the leftover (line 304)
MergeThreads ==
  (IF loops > 0 THEN {pmThreads} ELSE {}) \cup
  (IF HasLeftover(loops, len, delta) THEN {loThreads} ELSE {})

\* parallelMerge indexes mpi[0..threads]: getMergePaths line 89, worker
\* thread - 1 at line 119
TableOverrun == \E P \in MergeThreads : P + 1 > TableCapacity

\* the end of a pass, lines 306-307 / 328-329. A parallelMerge that indexes
\* its table beyond its capacity leaves the call undefined: the build may
\* stop the call at the store (a build with checked stack accesses aborts
\* there) or go on as if the store had fallen on unused stack
PlanPassEnd ==
  /\ pc = "pass"
  /\ \/ /\ TableOverrun
        /\ pc' = "undefined"
        /\ UNCHANGED <<delta, d, hist>>
     \/ /\ delta' = [delta EXCEPT !.num = 2 * @]
        /\ pc' = IF SecondPass(toSwap) THEN "mid" ELSE "loop"
        /\ d' = IF SecondPass(toSwap) THEN d ELSE d - 2
        /\ hist' = [hist EXCEPT !.passes = @ + 1,
                                !.steps = IF SecondPass(toSwap) THEN @ ELSE @ + 1,
                                !.lastDst = IF toSwap THEN "swap" ELSE "orig"]
  /\ UNCHANGED <<callVars, bufVars, roundVars, threads, toSwap, p1, task>>
  /\ UNCHANGED fjVars

NextPlan ==
  \/ \E requested \in PlanRequests : PlanStart(requested, 0)
  \/ PlanPass
  \/ PlanPassEnd
  \/ LoopExit

SpecPlan == InitPlan /\ [][NextPlan]_vars

\* the plan under fair scheduling: the calling thread goes on while it can
SpecPlanFair == SpecPlan /\ WF_vars(NextPlan)

(***************************************************************************)
(* Properties of the fork-join scheduler, checked under SpecFJ.            *)
(***************************************************************************)
Indices == 0..MaxRange

AllEnded(g) == \A w \in 1..Len(grp[g].futures) : grp[g].futures[w].st # "running"

SomeFailed(g) == \E w \in 1..Len(grp[g].futures) : grp[g].futures[w].st = "failed"

\* fn was invoked exactly once for each index of the range, and for no other
OncePerIndex(g) ==
  \A i \in Indices : calls[g][i] = IF i < rangeLen THEN 1 ELSE 0

\* at no time is an index invoked twice, or an index outside the range at all
NeverTwiceNorOutside(g) ==
  \A i \in Indices : calls[g][i] <= 1 /\ (i >= rangeLen => calls[g][i] = 0)

\* C3: parallelFor invokes fn exactly once for each index of [begin,end) and
\* for no other index, for every range length and every num_segs >= 1 (fn
\* not throwing); a num_segs above the range length is clamped to it.
C3_ForEachOncePerIndex ==
  \A g \in Groups :
    grp[g].kind = "for" =>
      /\ NeverTwiceNorOutside(g)
      /\ (grp[g].phase = "returned" /\ throwAt = -1 => OncePerIndex(g))
      /\ (rangeLen > 0 => grp[g].segs = Min(numSegs, rangeLen))

\* a parallelFor whose num_segs was clamped has returned, every index done
C3_Witness ==
  \E g \in Groups :
    /\ grp[g].kind = "for" /\ grp[g].phase = "returned"
    /\ throwAt = -1 /\ rangeLen >= 2 /\ numSegs > rangeLen
    /\ launched[g] = rangeLen - 1
    /\ OncePerIndex(g)

\* the last sub-range, the one no worker was given, ran on the calling thread
OwnSegmentRan(g) ==
  /\ \A w \in 1..Len(grp[g].futures) : grp[g].futures[w].le <= grp[g].sBeg
  /\ grp[g].sBeg < grp[g].n
  /\ grp[g].i = StopAt(grp[g].sBeg, grp[g].n, throwAt)

\* C4 as stated: parallelFor launches min(num_segs, n) - 1 workers, for every
\* range (an empty range included).
C4_LaunchesMinMinusOne ==
  \A g \in Groups :
    grp[g].kind = "for" /\ grp[g].phase \in {"returned", "raised"} =>
      launched[g] = Min(numSegs, rangeLen) - 1

\* C4 (amended): on a non-empty range parallelFor launches
\* min(num_segs, n) - 1 workers and runs the last sub-range on the calling
\* thread, on an empty range it launches none; and it does not leave the call
\* (by return or by an exception) while a worker it launched is running.
C4_ForEachLaunchAndJoin ==
  \A g \in Groups :
    grp[g].kind = "for" /\ grp[g].phase \in {"wait", "unwind", "returned", "raised"} =>
      /\ (rangeLen > 0 => launched[g] = Min(numSegs, rangeLen) - 1 /\ OwnSegmentRan(g))
      /\ (rangeLen = 0 => launched[g] = 0 /\ grp[g].futures = <<>>)
      /\ Len(grp[g].futures) = launched[g]
      /\ (grp[g].phase \in {"returned", "raised"} => AllEnded(g))

\* a parallelFor that launched two workers has left the call by an exception
\* of the calling thread's own segment
C4_Witness ==
  \E g \in Groups :
    /\ grp[g].kind = "for" /\ grp[g].phase = "raised"
    /\ launched[g] = 2 /\ AllEnded(g)
    /\ grp[g].sBeg <= throwAt

\* C5: when parallelForFinish returns, every worker of that
\* parallelForNoWait has ended and (fn not throwing) fn was invoked exactly
\* once for each index of its range, also when other groups were launched
\* before this one was joined.
C5_AsyncJoinComplete ==
  \A g \in Groups :
    grp[g].kind = "nowait" =>
      /\ NeverTwiceNorOutside(g)
      /\ (grp[g].phase = "joined" =>
            /\ AllEnded(g)
            /\ Len(grp[g].futures) = launched[g]
            /\ (throwAt = -1 => OncePerIndex(g)))

\* both groups were launched before either was joined, and both are joined
C5_Witness ==
  /\ \A g \in Groups : grp[g].kind = "nowait" /\ grp[g].phase = "joined"
  /\ \E g \in Groups : grp[g].others >= 1
  /\ throwAt = -1 /\ rangeLen >= 2 /\ numSegs >= 2
  /\ \A g \in Groups : OncePerIndex(g) /\ launched[g] >= 1

\* C6 as stated: a failure of fn in a launched worker is re-raised to the
\* thread that joins the group, so a group with a failed worker never ends
\* its join by a normal return.
C6_WorkerFailureReraised ==
  \A g \in Groups :
    grp[g].phase \in {"returned", "joined"} => ~SomeFailed(g)

\* C7 as stated: when a callback failure leaves a fork-join call, every
\* worker launched in that group has completed.
C7_RaisedAfterSiblings ==
  \A g \in Groups :
    grp[g].phase = "raised" => AllEnded(g)

\* the segments of group g once its launch loop has ended: those handed to
\* the workers, then the calling thread's own
Segments(g) ==
  [k \in 1..Len(grp[g].futures) |-> [lb |-> grp[g].futures[k].lb,
                                     le |-> grp[g].futures[k].le]]
    \o <<[lb |-> grp[g].sBeg, le |-> RoundSEnd(g)]>>

\* segments that follow one another from 0 to n, with lengths at most one
\* apart
NearEqualCover(segs, n) ==
  /\ segs[1].lb = 0
  /\ segs[Len(segs)].le = n
  /\ \A k \in 1..Len(segs) : segs[k].lb <= segs[k].le
  /\ \A k \in 1..Len(segs) - 1 : segs[k].le = segs[k + 1].lb
  /\ \A j, k \in 1..Len(segs) :
       (segs[j].le - segs[j].lb) - (segs[k].le - segs[k].lb) \in {-1, 0, 1}

\* the segments of phase 1 for n elements on t threads, lines 252-257
Phase1Segments(n, t) ==
  [k \in 1..t |-> [lb |-> Bound(k - 1, [num |-> n, den |-> t]),
                   le |-> Bound(k, [num |-> n, den |-> t])]]

\* C32: the segments parallelFor and parallelForNoWait cut a range into
\* (bounds round(k*n/segmentCount)) and those of phase 1 (bounds
\* round(i*N/threadCount)) follow one another without gap or overlap, cover
\* the whole range, and differ in length by at most one, for every range
\* length and every segment count >= 1.
C32_NearEqualSegments ==
  /\ \A g \in Groups :
       (grp[g].phase \in {"wait", "unwind", "finish", "handle", "raised"}
          /\ rangeLen > 0) =>
         /\ Len(Segments(g)) = ClampSegs(rangeLen, numSegs)
         /\ NearEqualCover(Segments(g), rangeLen)
  /\ \A g \in Groups :
       grp[g].phase = "launch" =>
         \A k \in 1..Len(grp[g].futures) :
           grp[g].futures[k].lb = (IF k = 1 THEN 0 ELSE grp[g].futures[k - 1].le)
  /\ \A n \in Lens, requested \in 1..MaxThreads :
       LET t == CapThreads(n, requested)
       IN /\ t >= 1
          /\ Len(Phase1Segments(n, t)) = t
          /\ NearEqualCover(Phase1Segments(n, t), n)

\* a range of 4 cut into 3: two workers have run segments of 1 and 2
\* indices, the calling thread its own of 1
C32_Witness ==
  /\ rangeLen = 4
  /\ numSegs = 3
  /\ \E g \in Groups :
       /\ grp[g].phase \in {"wait", "handle"}
       /\ Len(grp[g].futures) = 2
       /\ \A k \in 1..2 : grp[g].futures[k].st = "done"
       /\ Segments(g) = <<[lb |-> 0, le |-> 1], [lb |-> 1, le |-> 3], [lb |-> 3, le |-> 4]>>

(***************************************************************************)
(* Properties of parallelSort, checked under Spec (SpecThrow where said).  *)
(***************************************************************************)
Before(a, b) == a < b

\* no element comes before its predecessor under the comparator
NonDescending(buf, c) ==
  \A i \in 1..Len(buf) - 1 : ~compFunc(c, buf[i + 1], buf[i])

\* the same values, each as many times
Permutation(a, b) == SortSeq(a, Before) = SortSeq(b, Before)

\* position by position, neither element comes before the other
EquivalentAt(a, b, c) ==
  /\ Len(a) = Len(b)
  /\ \A i \in 1..Len(a) : ~compFunc(c, a[i], b[i]) /\ ~compFunc(c, b[i], a[i])

\* one std::sort of the whole input
SequentialSort == stdSort(input, 0, len, cmp)

Returned == pc = "done"

\* C1: for every length, every requested thread count >= 1 and every
\* comparator, when parallelSort returns the caller's buffer is a permutation
\* of the input, is non-descending under the comparator, and equals a
\* sequential sort of the input value for value (position by position the
\* elements are equivalent under the comparator, and equal where the
\* comparator tells all distinct values apart).
C1_SortedPermutation ==
  (Returned /\ hist.requested >= 1) =>
    /\ Permutation(orig, input)
    /\ NonDescending(orig, cmp)
    /\ EquivalentAt(orig, SequentialSort, cmp)
    /\ cmp \in {"less", "greater"} => orig = SequentialSort

C1_Witness ==
  /\ Returned
  /\ hist.requested >= 1
  /\ threads >= 3
  /\ cmp = "coarse"
  /\ orig # input

\* C2: with two threads or more, each step of the round counter d is one pass
\* begin -> swap followed by one pass swap -> begin, so at the loop test the
\* passes made are twice the steps and the last one wrote the caller's
\* buffer; when parallelSort returns, the sorted result is in the caller's
\* buffer.
C2_PassesPairUp ==
  threads >= 2 =>
    /\ pc \in {"loop", "done"} =>
         /\ hist.passes = 2 * hist.steps
         /\ hist.passes > 0 => hist.lastDst = "orig"
    /\ pc = "mid" =>
         /\ hist.passes = 2 * hist.steps + 1
         /\ hist.lastDst = "swap"
    /\ Returned =>
         /\ hist.steps >= 1
         /\ hist.lastDst = "orig"
         /\ NonDescending(orig, cmp)
         /\ Permutation(orig, input)

C2_Witness ==
  /\ Returned
  /\ threads >= 2
  /\ hist.steps = 2
  /\ hist.passes = 4

\* C8 (as the spec states it; the code does not satisfy it): on every exit
\* of a call, by return or by an exception, the scratch buffer the call
\* allocated has been released. Checked under SpecThrow.
C8_ScratchReleased == pc \in {"done", "threw"} => ~swapLive

\* C9: for N = 0 the call returns having allocated no scratch buffer and
\* written no element; for N = 1 it returns with the single element
\* unchanged; both for every requested thread count.
C9_EmptyAndSingle ==
  /\ len = 0 =>
       /\ pc \notin {"threw", "undefined"}
       /\ ~hist.everAlloc
       /\ hist.touched = 0
       /\ orig = <<>>
  /\ len = 1 =>
       /\ pc \notin {"threw", "undefined"}
       /\ orig = input

C9_Witness ==
  /\ Returned
  /\ len = 0
  /\ hist.requested = MaxThreads
  /\ threads = 1

\* C10 (as the spec states it; the code does not satisfy it): once the cap
\* is applied, with two threads or more every segment of phase 1 holds at
\* least 128 elements.
C10_SegmentsAtLeastMin ==
  (pc \in {"p1own", "p1wait"} /\ threads >= 2) =>
    \A i \in 0..threads - 1 : SegmentLen(i) >= MinPerThread

\* C11 (as the spec states it; the code does not satisfy it): the thread
\* count the call resolves is at least 1 for every length and every
\* requested count, also for the request 0 when hardware_concurrency()
\* reports 0.
C11_ThreadsAtLeastOne == pc # "entry" => threads >= 1

\* C12: with one thread (requested, or left by the cap) the call is one
\* std::sort of the whole range on the calling thread and returns after
\* phase 1: no worker is launched, no scratch buffer allocated, no pass made,
\* and the buffer is what a sequential sort of the input gives.
C12_OneThreadIsSequential ==
  (Returned /\ threads = 1) =>
    /\ Len(p1) = 0
    /\ SegmentLen(0) = len
    /\ hist.touched = len
    /\ ~hist.everAlloc
    /\ hist.passes = 0
    /\ orig = SequentialSort

C12_Witness ==
  /\ Returned
  /\ threads = 1
  /\ hist.requested = MaxThreads
  /\ len = 130
  /\ orig # input

\* the passes the loop at line 277 makes for depth = ceil(log2(threads)):
\* two for each step of d
PassesFor(t) == 2 * ((CeilLog2(t) + 1) \div 2)

\* the buffer the last pass wrote
LastDst == IF hist.lastDst = "swap" THEN swap ELSE orig

\* C20 as the spec states it: with two threads or more the call makes
\* exactly ceil(log2(threads)) passes.
C20_RoundsAreCeilLog2 ==
  (Returned /\ threads >= 2) => hist.passes = CeilLog2(threads)

\* C20, amended: with two threads or more the call makes ceil(log2(threads))
\* passes when that number is even and one more when it is odd, and every
\* pass writes the whole sequence from one buffer into the other.
C20_PassesEvenedUp ==
  threads >= 2 =>
    /\ Returned => hist.passes = PassesFor(threads)
    /\ (pc \in {"mid", "loop"} /\ hist.passes > 0) => Permutation(LastDst, input)

C20_Witness ==
  /\ Returned
  /\ threads = 5
  /\ hist.passes = 4

\* what has ended: a task and every worker it launched
TaskEnded(t) ==
  /\ task[t].st \in {"done", "failed"}
  /\ \A k \in 1..Len(task[t].sub) : Ended(task[t].sub[k])

\* C17: a pass ends, and so the next can begin, only when every merge task
\* of the pass (the launched ones, the calling thread's and the leftover) and
\* every worker those tasks launched has ended.
C17_RoundBarrier ==
  [][(pc = "pass" /\ pc' \in {"mid", "loop"}) =>
       \A t \in 1..Len(task) : TaskEnded(t)]_vars

C17_Witness ==
  /\ pc = "pass"
  /\ hist.passes = 1
  /\ loops = 1
  /\ Len(task) = 2
  /\ threads >= 4
  /\ task[1].st = "run"

\* the destination indices (from 0) assigned to worker k (from 0) of task t
WorkerDst(tk, t, k) ==
  LET w == TaskWorker(t, tk[t].mpi, k)
  IN w.wtid .. (w.wtid + (w.a1 - w.a0) + (w.b1 - w.b0) - 1)

\* the workers of the tasks whose table is computed
Workers(tk) ==
  {tkk \in (1..Len(tk)) \X (0..MaxThreads) :
     tk[tkk[1]].st \in {"run", "done"} /\ tkk[2] < TaskArgs(tkk[1]).P}

Dst == IF toSwap THEN swap ELSE orig

\* no two workers of a pass are assigned a common destination index
DisjointDst ==
  pc = "pass" =>
    \A v, w \in Workers(task) :
      v # w => WorkerDst(task, v[1], v[2]) \cap WorkerDst(task, w[1], w[2]) = {}

\* a step of a pass leaves the buffer the pass reads as it is, and changes
\* the other buffer inside the range of one worker at most
StoresInOwnRange ==
  pc = "pass" =>
    /\ (IF toSwap THEN orig' = orig ELSE swap' = swap)
    /\ (IF toSwap THEN swap' = swap ELSE orig' = orig)
       \/ \E v \in Workers(task') :
            \A i \in 0..len - 1 :
              i \notin WorkerDst(task', v[1], v[2]) =>
                (IF toSwap THEN At(swap', i) = At(swap, i)
                 ELSE At(orig', i) = At(orig, i))

\* C18: within one pass, in every interleaving, no two workers (of one task
\* or of different tasks, the leftover included) write a common destination
\* index, and no worker writes the buffer the pass reads.
C18_NoSharedWrites == []DisjointDst /\ [][StoresInOwnRange]_vars

C18_Witness ==
  /\ pc = "pass"
  /\ Len(task) >= 2
  /\ \A t \in 1..2 : task[t].st = "run" /\ Len(task[t].sub) >= 1
  /\ \E t \in 1..2 : \E k \in 1..Len(task[t].sub) : task[t].sub[k] = "done"

(***************************************************************************)
(* Properties of parallelMerge, checked under SpecMerge.                   *)
(***************************************************************************)
\* the tasks whose partition table is computed
Tabled == {t \in 1..Len(task) : task[t].st \in {"run", "done"}}

\* C13: for sorted ranges A and B and every worker count P >= 1 the table of
\* getMergePaths has table[0] = 0, table[P] = aCount and
\* table[k] <= table[k + 1] for every k in 0..P-1.
C13_TableMonotone ==
  \A t \in Tabled :
    LET r == TaskArgs(t)
        mpi == task[t].mpi
    IN /\ mpi[0] = 0
       /\ mpi[r.P] = r.lm - r.lb
       /\ \A k \in 0..r.P - 1 : mpi[k] <= mpi[k + 1]

C13_Witness ==
  /\ task[1].st = "run"
  /\ loThreads = 3
  /\ 0 < task[1].mpi[1]
  /\ task[1].mpi[1] < task[1].mpi[2]
  /\ task[1].mpi[2] < delta.num
  /\ len > delta.num

\* one mergeFF over the whole of A and B (a plain copy where one is empty)
SequentialMerge(t) ==
  LET r == TaskArgs(t)
  IN IF r.lb < r.lm /\ r.lm < r.le
     THEN mergeFF(Src, r.lb, r.lm - 1, r.lm, r.le - 1, cmp).out
     ELSE Slice(Src, r.lb, r.le)

\* C14 as the spec states it: what the P workers of parallelMerge store is,
\* element for element, what one mergeFF over the whole of A and B stores,
\* also in which of several equivalent elements stands where.
C14_SameAsSequentialMerge ==
  \A t \in 1..Len(task) :
    task[t].st = "done" =>
      Slice(Dst, TaskArgs(t).lb, TaskArgs(t).le) = SequentialMerge(t)

\* C14, amended: what the P workers of parallelMerge store holds the elements
\* of A and B, in order under the comparator, and agrees position by position
\* with one mergeFF over the whole of A and B up to equivalence under the
\* comparator; it is the same element for element where the comparator
\* tells all distinct values apart.
C14_SequentialUpToEquivalence ==
  \A t \in 1..Len(task) :
    task[t].st = "done" =>
      LET out == Slice(Dst, TaskArgs(t).lb, TaskArgs(t).le)
      IN /\ Permutation(out, SequentialMerge(t))
         /\ NonDescending(out, cmp)
         /\ EquivalentAt(out, SequentialMerge(t), cmp)
         /\ cmp \in {"less", "greater"} => out = SequentialMerge(t)

C14_Witness ==
  /\ task[1].st = "done"
  /\ loThreads = 3
  /\ cmp = "coarse"
  /\ delta.num = 3
  /\ len = 6
  /\ swap # SequentialMerge(1)

\* C15: the A slices [a0, a1) of the P workers of a parallelMerge partition
\* A, their B slices [b0, b1) partition B (each with b0 <= b1), and their
\* destination ranges partition [dBeg, dBeg + aCount + bCount): each source
\* element is read by one worker, each destination index written by one.
C15_SlicesPartition ==
  \A t \in Tabled :
    LET r == TaskArgs(t)
        W(k) == TaskWorker(t, task[t].mpi, k)
        count(k) == (W(k).a1 - W(k).a0) + (W(k).b1 - W(k).b0)
    IN /\ W(0).a0 = r.lb /\ W(r.P - 1).a1 = r.lm
       /\ W(0).b0 = r.lm /\ W(r.P - 1).b1 = r.le
       /\ W(0).wtid = r.lb /\ W(r.P - 1).wtid + count(r.P - 1) = r.le
       /\ \A k \in 0..r.P - 1 : W(k).a0 <= W(k).a1 /\ W(k).b0 <= W(k).b1
       /\ \A k \in 0..r.P - 2 :
            /\ W(k).a1 = W(k + 1).a0
            /\ W(k).b1 = W(k + 1).b0
            /\ W(k).wtid + count(k) = W(k + 1).wtid
       /\ task[t].st = "done" =>
            \A i \in r.lb..r.le - 1 : At(Dst, i) # Garbage

C15_Witness ==
  /\ task[1].st = "done"
  /\ loThreads = 3
  /\ delta.num = 3
  /\ len = 6
  /\ \A k \in 0..2 : WorkerCompares(TaskWorker(1, task[1].mpi, k))

\* the workers (from 0) of task t that have stored their output: the last
\* one runs on the task's own thread, the others are the launched ones
StoredWorkers(t) ==
  {k \in 0..TaskArgs(t).P - 1 :
     IF k = TaskArgs(t).P - 1 THEN TRUE ELSE task[t].sub[k + 1] = "done"}

\* C16: a mergeFF of two non-empty sorted sub-ranges stores exactly
\* (aEnd-aBeg+1) + (bEnd-bBeg+1) elements from its destination start on; the
\* run it stores is in order under the comparator and is a permutation of
\* the two sub-ranges; no other destination index is stored to, and the
\* source is as it was.
C16_MergeStep ==
  \A t \in Tabled :
    /\ \A k \in StoredWorkers(t) :
         LET w == TaskWorker(t, task[t].mpi, k)
             run == Slice(Dst, w.wtid, w.wtid + (w.a1 - w.a0) + (w.b1 - w.b0))
         IN WorkerCompares(w) =>
              /\ run = mergeFF(Src, w.a0, w.a1 - 1, w.b0, w.b1 - 1, cmp).out
              /\ NonDescending(run, cmp)
              /\ Permutation(run, Slice(Src, w.a0, w.a1) \o Slice(Src, w.b0, w.b1))
    /\ \A i \in 0..len - 1 :
         (\A k \in StoredWorkers(t) : i \notin WorkerDst(task, t, k)) =>
           At(Dst, i) = Garbage
    /\ Src = input

C16_Witness ==
  /\ task[1].st = "done"
  /\ loThreads = 1
  /\ delta.num = 3
  /\ len = 6
  /\ cmp = "coarse"
  /\ swap # orig

\* the split of task t at its interior table entry k: the diagonal
\* d = round(k * (aCount + bCount) / P), the window of mergePath, the entry
\* i, and the ranges A and B of the task
Split(t, k) ==
  LET r == TaskArgs(t)
      dg == Grid(k, r.le - r.lb, r.P)
  IN [i |-> task[t].mpi[k],
      d |-> dg,
      lo |-> Max(0, dg - (r.le - r.lm)),
      hi |-> Min(dg, r.lm - r.lb),
      A |-> Slice(Src, r.lb, r.lm),
      B |-> Slice(Src, r.lm, r.le)]

\* i is the smallest offset of the window at which A[i] is not strictly
\* before B[d-1-i] (the upper end of the window, where nothing is left to
\* compare, when every smaller offset has A[j] before B[d-1-j])
SmallestNotBefore(s) ==
  /\ s.lo <= s.i /\ s.i <= s.hi
  /\ \A j \in s.lo..s.i - 1 : compFunc(cmp, s.A[j + 1], s.B[s.d - j])
  /\ s.i < s.hi => ~compFunc(cmp, s.A[s.i + 1], s.B[s.d - s.i])

\* no element of A[i..) or B[d-i..) is strictly before one of A[0..i) or
\* B[0..d-i)
NoneBeforeThePrefix(s) ==
  LET head == SubSeq(s.A, 1, s.i) \o SubSeq(s.B, 1, s.d - s.i)
      rest == SubSeq(s.A, s.i + 1, Len(s.A)) \o SubSeq(s.B, s.d - s.i + 1, Len(s.B))
  IN \A x \in 1..Len(rest), y \in 1..Len(head) : ~compFunc(cmp, rest[x], head[y])

\* A[0..i) and B[0..d-i), and the first d elements one mergeFF over A and B
\* stores
SplitHead(s) == SubSeq(s.A, 1, s.i) \o SubSeq(s.B, 1, s.d - s.i)

MergeHead(t, s) == SubSeq(SequentialMerge(t), 1, s.d)

\* C22 as the spec states it: for sorted A and B and every interior
\* diagonal d = round(k * (aCount + bCount) / P), mergePath returns the
\* smallest i of [max(0, d-bCount), min(d, aCount)] with A[i] not strictly
\* before B[d-1-i]; nothing of A[i..) or B[d-i..) is strictly before anything
\* of A[0..i) or B[0..d-i); and A[0..i) with B[0..d-i) are exactly the first
\* d elements of the full sequential merge.
C22_SplitIsMergeHead ==
  \A t \in Tabled : \A k \in 1..TaskArgs(t).P - 1 :
    LET s == Split(t, k)
    IN /\ SmallestNotBefore(s)
       /\ NoneBeforeThePrefix(s)
       /\ Permutation(SplitHead(s), MergeHead(t, s))

\* C22, amended: mergePath returns that smallest i, nothing after the split
\* is strictly before anything ahead of it, and A[0..i) with B[0..d-i),
\* put in order, agree position by position with the first d elements of
\* the full sequential merge up to equivalence under the comparator; they
\* are exactly those elements where the comparator tells all distinct
\* values apart.
C22_SplitIsMergeHeadUpToEquivalence ==
  \A t \in Tabled : \A k \in 1..TaskArgs(t).P - 1 :
    LET s == Split(t, k)
    IN /\ SmallestNotBefore(s)
       /\ NoneBeforeThePrefix(s)
       /\ EquivalentAt(SortSeq(SplitHead(s), LAMBDA a, b : compFunc(cmp, a, b)),
                       MergeHead(t, s), cmp)
       /\ cmp \in {"less", "greater"} => Permutation(SplitHead(s), MergeHead(t, s))

\* a search that had to decide: the entry is inside its window, with
\* equivalent elements on the two sides of the split
C22_Witness ==
  /\ task[1].st = "run"
  /\ cmp = "coarse"
  /\ \E k \in 1..loThreads - 1 :
       LET s == Split(1, k)
       IN /\ s.lo < s.i /\ s.i < s.hi
          /\ ~compFunc(cmp, s.B[s.d - s.i], s.A[s.i + 1])

\* the number of elements worker k (from 0) of task t stores
WorkerCount(t, k) ==
  Len(WorkerOutput(Src, cmp, TaskWorker(t, task[t].mpi, k)).out)

\* C23: in one parallelMerge with P workers over T = aCount + bCount
\* elements, worker k stores exactly round((k+1)*T/P) - round(k*T/P)
\* elements, so that the counts of any two workers differ by at most one,
\* and table[k+1] - table[k] of them come from A.
C23_WorkerCounts ==
  \A t \in Tabled :
    LET r == TaskArgs(t)
        T == r.le - r.lb
    IN /\ \A k \in 0..r.P - 1 :
            LET w == TaskWorker(t, task[t].mpi, k)
            IN /\ WorkerCount(t, k) = Grid(k + 1, T, r.P) - Grid(k, T, r.P)
               /\ w.a1 - w.a0 = task[t].mpi[k + 1] - task[t].mpi[k]
               /\ WorkerCount(t, k) = (w.a1 - w.a0) + (w.b1 - w.b0)
               /\ k \in StoredWorkers(t) =>
                    Slice(Dst, w.wtid, w.wtid + WorkerCount(t, k))
                      = WorkerOutput(Src, cmp, w).out
       /\ \A j, k \in 0..r.P - 1 :
            WorkerCount(t, j) - WorkerCount(t, k) \in {-1, 0, 1}

\* three workers over five elements have stored 2, 1 and 2 of them, each
\* with an element of A
C23_Witness ==
  /\ task[1].st = "done"
  /\ loThreads = 3
  /\ len = 5
  /\ WorkerCount(1, 0) = 2 /\ WorkerCount(1, 1) = 1 /\ WorkerCount(1, 2) = 2
  /\ \A k \in 0..2 : task[1].mpi[k] < task[1].mpi[k + 1]

\* C24: a parallelMerge worker whose A slice or B slice is empty copies the
\* other slice to its destination range without calling the comparator;
\* only the workers with both slices non-empty go through mergeFF (and call
\* it).
C24_EmptySliceCopies ==
  \A t \in Tabled : \A k \in 0..TaskArgs(t).P - 1 :
    LET w == TaskWorker(t, task[t].mpi, k)
        made == WorkerCalls(Src, cmp, w)
        o == WorkerOutput(Src, cmp, w)
    IN /\ w.a0 = w.a1 => made = 0 /\ o.out = Slice(Src, w.b0, w.b1)
       /\ w.b0 = w.b1 => made = 0 /\ o.out = Slice(Src, w.a0, w.a1)
       /\ (w.a0 # w.a1 /\ w.b0 # w.b1) =>
            /\ made >= 2
            /\ o = mergeFF(Src, w.a0, w.a1 - 1, w.b0, w.b1 - 1, cmp)
       /\ (made > 0) = WorkerCompares(w)
       /\ k \in StoredWorkers(t) =>
            Slice(Dst, w.wtid, w.wtid + Len(o.out)) = o.out

\* of three workers that have stored, one had only elements of B, one only
\* elements of A, and one both
C24_Witness ==
  /\ task[1].st = "done"
  /\ loThreads = 3
  /\ \E j, k, m \in 0..2 :
       LET W(n) == TaskWorker(1, task[1].mpi, n)
       IN /\ W(j).a0 = W(j).a1 /\ W(j).b0 < W(j).b1
          /\ W(k).b0 = W(k).b1 /\ W(k).a0 < W(k).a1
          /\ WorkerCalls(Src, cmp, W(m)) > 0

\* C25: in a mergeFF of two non-empty sorted ranges the compare-and-copy
\* loop, bounded by the end of one range only, never reads the other range
\* beyond that range's end.
C25_CursorStaysInRange ==
  /\ pc # "undefined"
  /\ \A t \in Tabled : \A k \in 0..TaskArgs(t).P - 1 :
       LET w == TaskWorker(t, task[t].mpi, k)
           r == mergeFFLoop(Src, w.a0, w.a1 - 1, w.b0, w.b1 - 1, cmp)
       IN WorkerCompares(w) =>
            /\ ~mergeFF(Src, w.a0, w.a1 - 1, w.b0, w.b1 - 1, cmp).stray
            /\ ~r.stray
            /\ IF AEndsFirst(Src, cmp, w.a1 - 1, w.b1 - 1)
               THEN r.a = w.a1 /\ w.b0 <= r.b /\ r.b <= w.b1 - 1
               ELSE r.b = w.b1 /\ w.a0 <= r.a /\ r.a <= w.a1 - 1

\* one mergeFF over three and three elements took the loop bounded by A's
\* end and moved its B cursor, which the loop does not test: B starts
\* before A, and B's last element is left to the copy loop
C25_Witness ==
  /\ task[1].st = "done"
  /\ loThreads = 1
  /\ delta.num = 3
  /\ len = 6
  /\ AEndsFirst(Src, cmp, 2, 5)
  /\ compFunc(cmp, orig[4], orig[1])
  /\ swap[6] = orig[6]

\* neither element is before the other under the comparator
Tie(a, b) == ~compFunc(cmp, a, b) /\ ~compFunc(cmp, b, a)

\* C26: in mergeFF, when the heads of the two ranges compare equal, the
\* loop bounded by A's end (taken when A's last element is strictly before
\* B's last) copies the A head first, and the loop bounded by B's end copies
\* the B head first: equal keys of the two ranges are not ordered the same
\* way in the two loops.
C26_TieDirection ==
  \A t \in Tabled : \A k \in 0..TaskArgs(t).P - 1 :
    LET w == TaskWorker(t, task[t].mpi, k)
        passes == Len(mergeFFLoop(Src, w.a0, w.a1 - 1, w.b0, w.b1 - 1, cmp).out)
        After(n) == mergeFFLoopAfter(Src, w.a0, w.a1 - 1, w.b0, w.b1 - 1, cmp, n)
    IN WorkerCompares(w) =>
         \A n \in 0..passes - 1 :
           Tie(At(Src, After(n).a), At(Src, After(n).b)) =>
             IF AEndsFirst(Src, cmp, w.a1 - 1, w.b1 - 1)
             THEN /\ After(n + 1).a = After(n).a + 1
                  /\ After(n + 1).b = After(n).b
                  /\ After(n + 1).out = Append(After(n).out, At(Src, After(n).a))
             ELSE /\ After(n + 1).b = After(n).b + 1
                  /\ After(n + 1).a = After(n).a
                  /\ After(n + 1).out = Append(After(n).out, At(Src, After(n).b))

\* two workers of one parallelMerge, each starting with equal heads: the
\* first is in the loop bounded by A's end and has stored its A head ahead
\* of a different, equivalent B head; the second is in the loop bounded by
\* B's end and has stored its B head first
C26_Witness ==
  /\ task[1].st = "done"
  /\ loThreads = 2
  /\ cmp = "coarse"
  /\ LET v == TaskWorker(1, task[1].mpi, 0)
         w == TaskWorker(1, task[1].mpi, 1)
     IN /\ WorkerCompares(v) /\ WorkerCompares(w)
        /\ AEndsFirst(Src, cmp, v.a1 - 1, v.b1 - 1)
        /\ ~AEndsFirst(Src, cmp, w.a1 - 1, w.b1 - 1)
        /\ Tie(At(Src, v.a0), At(Src, v.b0)) /\ At(Src, v.a0) # At(Src, v.b0)
        /\ Tie(At(Src, w.a0), At(Src, w.b0))
        /\ At(Dst, v.wtid) = At(Src, v.a0)
        /\ At(Dst, w.wtid) = At(Src, w.b0)

(***************************************************************************)
(* Properties of the plan, checked under SpecPlan.                         *)
(***************************************************************************)
\* the tasks of the pass: the full pairs and the leftover, line 290 / 311
PlanLeftover == HasLeftover(loops, len, delta)

PlanTasks == loops + IF PlanLeftover THEN 1 ELSE 0

\* C27: in every merge round, with tasks = loops full pairs plus at most
\* one leftover, each full pair is given ceil(threadCount / tasks) threads
\* and the leftover threadCount - loops * ceil(threadCount / tasks); the
\* budgets of the round's tasks sum to exactly threadCount, and a leftover
\* that exists is given at least 1 thread.
C27_ThreadBudgets ==
  pc = "pass" =>
    /\ PlanTasks >= 1
    /\ pmThreads * PlanTasks >= threads
    /\ (pmThreads - 1) * PlanTasks < threads
    /\ loThreads = threads - loops * pmThreads
    /\ loops * pmThreads + (IF PlanLeftover THEN loThreads ELSE 0) = threads
    /\ PlanLeftover => loThreads >= 1

\* a round of 10 threads with two full pairs of 4 threads each and a
\* leftover of 2
C27_Witness ==
  /\ pc = "pass"
  /\ threads = 10
  /\ loops = 2
  /\ PlanLeftover
  /\ pmThreads = 4
  /\ loThreads = 2

\* C28 (as the comment at lines 284-287 states it; the code does not
\* satisfy it): in every merge round loThreads is 0 when the round has no
\* leftover, and otherwise is pmThreads or pmThreads - 1.
C28_LeftoverBudgetNearPair ==
  pc = "pass" =>
    IF PlanLeftover
    THEN loThreads \in {pmThreads, pmThreads - 1}
    ELSE loThreads = 0

\* C19 (as the spec states it; the code does not satisfy it): for every
\* thread count parallelSort hands to parallelMerge, the table indices
\* 0..P lie inside the capacity of mpi, 1024 entries.
C19_TableIndexInCapacity ==
  pc = "pass" => \A P \in MergeThreads : P + 1 <= TableCapacity

(***************************************************************************)
(* Properties of the rounds of parallelSort, checked under Spec.           *)
(***************************************************************************)
\* C21 (as the README states it; the compiled build does not satisfy it):
\* every parallelMerge call parallelSort makes is given the call's whole
\* thread count as its number of workers.
C21_MergeGetsAllThreads ==
  pc = "pass" => \A t \in 1..Len(task) : TaskArgs(t).P = threads
\* [x, y) is empty or is one of the runs the previous step left: it starts
\* and ends at ends of such runs, and none ends inside it
OneRun(x, y) ==
  x < y => /\ x \in hist.runs
           /\ y \in hist.runs
           /\ \A b \in hist.runs : ~(x < b /\ b < y)

\* C29: every merge task of every round, full pair or leftover, receives
\* ranges A and B that are each one sorted run of phase 1 or of the round
\* before: the task's bounds round(2i*delta), round((2i+1)*delta),
\* round((2i+2)*delta), and the leftover's start and clipped midpoint, are
\* ends of the runs of the round before, delta being the delta of phase 1
\* doubled once per round.
C29_TasksGetSortedRuns ==
  pc = "pass" =>
    /\ delta = [num |-> len * (2 ^ hist.passes), den |-> threads]
    /\ \A t \in 1..Len(task) :
         LET r == TaskArgs(t)
         IN /\ r.lb < r.lm /\ r.lm <= r.le
            /\ OneRun(r.lb, r.lm)
            /\ OneRun(r.lm, r.le)
            /\ NonDescending(Slice(Src, r.lb, r.lm), cmp)
            /\ NonDescending(Slice(Src, r.lm, r.le), cmp)

\* the third round of 5 threads: its one task, a leftover, has merged the
\* run of four segments with the fifth segment
C29_Witness ==
  /\ pc = "pass"
  /\ threads = 5
  /\ hist.passes = 2
  /\ Len(task) = 1
  /\ task[1].st = "done"
  /\ TaskArgs(1).lm < len
  /\ len % 5 # 0
\* every task of the pass has returned: the pass is at its join
AllStored == pc = "pass" /\ \A t \in 1..Len(task) : task[t].st = "done"

\* C30: at every join between rounds the buffer just written holds every
\* input element exactly once: the full pairs and the leftover of the round
\* together write every index of [0, N) of the destination exactly once,
\* and a trailing segment without a partner (B empty once the midpoint is
\* clipped to N) is copied across unchanged.
C30_PassWritesEveryIndexOnce ==
  /\ pc = "pass" =>
       UNION {TaskArgs(t).lb .. TaskArgs(t).le - 1 : t \in 1..Len(task)} = 0..len - 1
  /\ AllStored =>
       /\ UNION {WorkerDst(task, v[1], v[2]) : v \in Workers(task)} = 0..len - 1
       /\ \A v, w \in Workers(task) :
            v # w => WorkerDst(task, v[1], v[2]) \cap WorkerDst(task, w[1], w[2]) = {}
       /\ Permutation(Dst, input)
       /\ \A t \in 1..Len(task) :
            LET r == TaskArgs(t)
            IN r.lm = r.le => Slice(Dst, r.lb, r.le) = Slice(Src, r.lb, r.le)
  /\ (pc \in {"mid", "loop"} /\ hist.passes > 0) =>
       /\ Permutation(LastDst, input)
       /\ {0, len} \subseteq hist.runs

\* the first round of 3 threads at its join: one full pair merged, and the
\* third segment, which has no partner, copied into the scratch buffer
C30_Witness ==
  /\ AllStored
  /\ threads = 3
  /\ hist.passes = 0
  /\ Len(task) = 2
  /\ TaskArgs(2).lm = len
  /\ TaskArgs(2).lb < len
  /\ Slice(swap, TaskArgs(2).lb, len) = Slice(orig, TaskArgs(2).lb, len)
  /\ Slice(swap, 0, TaskArgs(2).lb) # Slice(orig, 0, TaskArgs(2).lb)
\* the threads at work in a pass: the calling thread, the threads
\* parallelForNoWait launched whose task has not returned, and the workers
\* the parallelFor of each parallelMerge launched that have not ended
RECURSIVE RunningSubs(_)
RunningSubs(t) ==
  IF t = 0 THEN 0
  ELSE RunningSubs(t - 1)
         + Cardinality({k \in 1..Len(task[t].sub) : task[t].sub[k] = "running"})

AtWork ==
  1 + Cardinality({t \in 1..Len(task) : Async(t) /\ task[t].st \in {"new", "run"}})
    + RunningSubs(Len(task))

\* C33: at every instant of every merge round the threads at work for the
\* call (those parallelForNoWait launched, those launched inside each
\* parallelMerge, and the calling thread) are at most the effective thread
\* count.
C33_AtMostThreadsAtWork ==
  pc = "pass" => AtWork <= threads

\* 4 threads, first round: the launched task and the calling thread's task
\* each with one worker running, 4 threads at work
C33_Witness ==
  /\ pc = "pass"
  /\ threads = 4
  /\ Len(task) = 2
  /\ \A t \in 1..2 : task[t].st = "run" /\ task[t].sub = <<"running">>
  /\ AtWork = 4

\* a step that writes what the lambdas of lines 294 / 316 capture by
\* reference and the running tasks read: delta, pmThreads (with loops and
\* loThreads, written along with it), which buffer is read and which
\* written, and the scratch buffer's being allocated
ParamsWritten ==
  \/ delta' # delta
  \/ roundVars' # roundVars
  \/ toSwap' # toSwap
  \/ swapLive' # swapLive

\* a task parallelForNoWait launched is still running (itself or a worker
\* of its parallelMerge)
InFlight == \E t \in 1..Len(task) : Async(t) /\ ~TaskEnded(t)

\* C34: the round parameters the running merge tasks read through their
\* by-reference capture (delta, pmThreads, the buffers) are never written
\* by the calling thread while a task parallelForNoWait launched for the
\* round is still running: they are computed anew only after the round's
\* parallelForFinish has returned.
C34_ParamsStableInFlight ==
  [][ParamsWritten => ~InFlight]_vars

\* 4 threads: the first round had a launched task, and the parameters of
\* the second round are written: one full pair with all 4 threads, read
\* from the scratch buffer
C34_Witness ==
  /\ pc = "pass"
  /\ threads = 4
  /\ hist.passes = 1
  /\ delta.num = 2 * len
  /\ loops = 1
  /\ pmThreads = 4
  /\ ~toSwap

(***************************************************************************)
(* Termination, checked under SpecPlanFair.                                *)
(***************************************************************************)
\* no thread the call launched is running
NoneRunning ==
  /\ \A i \in 1..Len(p1) : Ended(p1[i])
  /\ \A t \in 1..Len(task) :
       /\ task[t].st \in {"done", "failed"}
       /\ \A k \in 1..Len(task[t].sub) : Ended(task[t].sub[k])

\* the round counter: set to ceil(log2(threads)) where the loop is entered,
\* lowered by 2 and by nothing else, and <= 0 where the loop is left
CounterSteps ==
  /\ (pc \notin {"loop", "pass", "mid"} /\ pc' = "loop") => d' = CeilLog2(threads')
  /\ (pc \in {"loop", "pass", "mid"} /\ d' # d) => d' = d - 2
  /\ (pc = "loop" /\ pc' = "done") => d <= 0

====
